---- MODULE Spec2Model ----
(***************************************************************************)
(* Model of server.py: the Flask MCP gateway in front of the Sora video    *)
(* API.  Every handler is one action.  A handler makes at most one         *)
(* outbound HTTP request; what the upstream does with it (answer, time out,*)
(* refuse the connection) is an input of the action.                       *)
(*                                                                         *)
(* Python / JSON values are tagged records [t |-> tag, v |-> payload]:     *)
(*   "null" None, "bool", "num", "str", "arr" (list), "obj" (dict with     *)
(*   string keys, a function from keys to values), and "exc" for a raised  *)
(*   exception (v is the exception class, msg is str(e)).                  *)
(***************************************************************************)
EXTENDS Integers, Sequences, FiniteSets, TLC

VARIABLES
    ACCESS_TOKEN,        \* server.py:30  os.getenv("MCP_ACCESS_TOKEN")
    SORA_API_KEY,        \* server.py:28
    FASTMCP_AVAILABLE,   \* server.py:16-20  which pair of tool functions is defined
    request,             \* the request of the last exchange
    upstream,            \* what the upstream did with an outbound request of that exchange
    invoked,             \* the tool function the handler called, "" for none
    outbound,            \* the outbound HTTP requests the handler issued (a sequence)
    response             \* what the handler returned, or the fault that escaped it

vars == <<ACCESS_TOKEN, SORA_API_KEY, FASTMCP_AVAILABLE, request, upstream, invoked, outbound,
          response>>

----------------------------------------------------------------------------
(* Bounds of the model *)

\* longest "assets" list in an upstream job object
MaxAssets == 2

----------------------------------------------------------------------------
(* Python values *)

JNull == [t |-> "null"]
JBool(b) == [t |-> "bool", v |-> b]
JNum(n) == [t |-> "num", v |-> n]
JStr(s) == [t |-> "str", v |-> s]
JArr(s) == [t |-> "arr", v |-> s]
JObj(f) == [t |-> "obj", v |-> f]
EmptyObj == JObj(<<>>)
Exc(class, msg) == [t |-> "exc", v |-> class, msg |-> msg]

IsExc(x) == x.t = "exc"
IsObj(x) == x.t = "obj"
Has(d, k) == IsObj(d) /\ k \in DOMAIN d.v

\* bool(x)
Truthy(x) ==
    CASE x.t = "null" -> FALSE
      [] x.t = "bool" -> x.v
      [] x.t = "num"  -> x.v # 0
      [] x.t = "str"  -> x.v # ""
      [] x.t = "arr"  -> Len(x.v) > 0
      [] x.t = "obj"  -> DOMAIN x.v # {}

\* a or b
PyOr(a, b) == IF Truthy(a) THEN a ELSE b

\* type(x).__name__
TypeName(x) ==
    CASE x.t = "null" -> "NoneType"
      [] x.t = "bool" -> "bool"
      [] x.t = "num"  -> "int"
      [] x.t = "str"  -> "str"
      [] x.t = "arr"  -> "list"
      [] x.t = "obj"  -> "dict"

\* x.get(k): dict.get, or AttributeError on anything that is not a dict
PyGet(x, k) ==
    IF IsObj(x)
    THEN IF k \in DOMAIN x.v THEN x.v[k] ELSE JNull
    ELSE Exc("AttributeError", "'" \o TypeName(x) \o "' object has no attribute 'get'")

\* x.get(k, default)
PyGetDefault(x, k, default) ==
    IF IsObj(x)
    THEN IF k \in DOMAIN x.v THEN x.v[k] ELSE default
    ELSE Exc("AttributeError", "'" \o TypeName(x) \o "' object has no attribute 'get'")

\* x[-1], for a truthy x
PyIndexLast(x) ==
    CASE x.t = "arr" -> x.v[Len(x.v)]
      [] x.t = "str" -> JStr(SubSeq(x.v, Len(x.v), Len(x.v)))
      [] x.t = "obj" -> Exc("KeyError", "-1")
      [] OTHER       -> Exc("TypeError", "'" \o TypeName(x) \o "' object is not subscriptable")

\* x[0], for a truthy x
PyIndex0(x) ==
    CASE x.t = "arr" -> x.v[1]
      [] x.t = "str" -> JStr(SubSeq(x.v, 1, 1))
      [] x.t = "obj" -> Exc("KeyError", "0")
      [] OTHER       -> Exc("TypeError", "'" \o TypeName(x) \o "' object is not subscriptable")

\* str(x), as an f-string renders it
PyStr(x) ==
    CASE x.t = "null" -> "None"
      [] x.t = "bool" -> IF x.v THEN "True" ELSE "False"
      [] x.t = "num"  -> ToString(x.v)
      [] x.t = "str"  -> x.v
      [] x.t = "arr"  -> "[...]"
      [] x.t = "obj"  -> "{...}"
      [] x.t = "exc"  -> x.msg

\* x == "literal"
PyEqStr(x, s) == x.t = "str" /\ x.v = s

----------------------------------------------------------------------------
(* Config (env), server.py:27-31 *)

SORA_MODEL_ID == JStr("sora-2")

----------------------------------------------------------------------------
(* The upstream's part in an exchange.  kind is "response" (an HTTP answer  *)
(* with status_code and a body that is JSON (is_json, body) or not (text)), *)
(* "timeout" (httpx.ReadTimeout) or "connect" (httpx.ConnectError).  The    *)
(* tag t = "resp" marks an httpx.Response among the Python values.          *)

UpResponse(code, body) ==
    [t |-> "resp", kind |-> "response", status_code |-> code, is_json |-> TRUE, body |-> body, text |-> ""]
UpText(code, text) ==
    [t |-> "resp", kind |-> "response", status_code |-> code, is_json |-> FALSE, body |-> JNull, text |-> text]
UpTimeout == [t |-> "resp", kind |-> "timeout", status_code |-> 0, is_json |-> FALSE, body |-> JNull, text |-> ""]
UpConnect == [t |-> "resp", kind |-> "connect", status_code |-> 0, is_json |-> FALSE, body |-> JNull, text |-> ""]
UpNone == [t |-> "resp", kind |-> "none", status_code |-> 0, is_json |-> FALSE, body |-> JNull, text |-> ""]

\* httpx.Client.post / .get: the response, or the transport exception
ClientSend(up) ==
    CASE up.kind = "timeout" -> Exc("ReadTimeout", "The read operation timed out")
      [] up.kind = "connect" -> Exc("ConnectError", "All connection attempts failed")
      [] OTHER -> up

\* httpx's class hierarchy: ReadTimeout < TimeoutException < TransportError <
\* RequestError < HTTPError, and ConnectError < NetworkError < TransportError
IsHTTPError(e) == IsExc(e) /\ e.v \in {"ReadTimeout", "ConnectError"}

_safe_json(resp) ==
    IF resp.is_json
    THEN resp.body
    ELSE JObj("status_code" :> JNum(resp.status_code) @@ "text" :> JStr(resp.text))

----------------------------------------------------------------------------
(* Tool functions.  Each returns [calls, ret]: the outbound requests it     *)
(* issued and the value it returned or the exception it raised.             *)

Ran(calls, ret) == [calls |-> calls, ret |-> ret]

AuthHeader == "Bearer " \o PyStr(SORA_API_KEY)

PostJob(payload) ==
    [method |-> "POST", url |-> "/video/jobs", Authorization |-> AuthHeader, json |-> payload]
GetJob(job_id) ==
    [method |-> "GET", url |-> "/video/jobs/" \o PyStr(job_id), Authorization |-> AuthHeader,
     json |-> JNull]

\* f(**args): what Python raises before the body runs, or JNull
BindKwargs(fn, args, params, required) ==
    IF ~IsObj(args)
    THEN Exc("TypeError", fn \o "() argument after ** must be a mapping, not " \o TypeName(args))
    ELSE IF ~(DOMAIN args.v \subseteq params)
    THEN Exc("TypeError", fn \o "() got an unexpected keyword argument")
    ELSE IF ~(required \subseteq DOMAIN args.v)
    THEN Exc("TypeError", fn \o "() missing 1 required positional argument")
    ELSE JNull

StartParams == {"prompt", "duration", "aspect_ratio", "resolution", "audio", "negative_prompt"}

StartPayload(prompt, kw) ==
    JObj("model" :> SORA_MODEL_ID
      @@ "prompt" :> prompt
      @@ "duration" :> PyGetDefault(kw, "duration", JNum(12))
      @@ "aspect_ratio" :> PyGetDefault(kw, "aspect_ratio", JStr("16:9"))
      @@ "resolution" :> PyGetDefault(kw, "resolution", JStr("1080p"))
      @@ "audio" :> PyGetDefault(kw, "audio", JBool(TRUE))
      @@ "negative_prompt" :> PyGet(kw, "negative_prompt"))

\* NormalizeStatus taking the newest asset, assets[-1], for the video
NormalizeStatusLastAsset(data) ==
    LET output == PyGet(data, "output") IN
    IF IsExc(output) THEN output ELSE
    LET got == PyGet(PyOr(output, EmptyObj), "assets") IN
    IF IsExc(got) THEN got ELSE
    LET assets == PyOr(got, JArr(<<>>))
        last == PyIndexLast(assets)
        video_url == IF Truthy(assets)
                     THEN IF IsExc(last) THEN last ELSE PyGet(PyOr(last, EmptyObj), "url")
                     ELSE JNull
    IN  IF IsExc(video_url) THEN video_url ELSE
        JObj("status" :> PyGet(data, "status")
          @@ "progress" :> PyGet(data, "progress")
          @@ "video_url" :> video_url
          @@ "thumbnail_url" :> PyGet(PyOr(PyGet(data, "output"), EmptyObj), "thumbnail_url")
          @@ "raw" :> data)

\* the normalisation at the end of get_sora_job (the same lines in both variants)
NormalizeStatus(data) ==
    LET output == PyGet(data, "output") IN
    IF IsExc(output) THEN output ELSE
    LET got == PyGet(PyOr(output, EmptyObj), "assets") IN
    IF IsExc(got) THEN got ELSE
    LET assets == PyOr(got, JArr(<<>>))
        first == PyIndex0(assets)
        video_url == IF Truthy(assets)
                     THEN IF IsExc(first) THEN first ELSE PyGet(PyOr(first, EmptyObj), "url")
                     ELSE JNull
    IN  IF IsExc(video_url) THEN video_url ELSE
        JObj("status" :> PyGet(data, "status")
          @@ "progress" :> PyGet(data, "progress")
          @@ "video_url" :> video_url
          @@ "thumbnail_url" :> PyGet(PyOr(PyGet(data, "output"), EmptyObj), "thumbnail_url")
          @@ "raw" :> data)

\* start_sora_job as defined when FastMCP is installed
start_sora_job_fastmcp(args, up) ==
    LET bound == BindKwargs("start_sora_job", args, StartParams, {"prompt"}) IN
    IF IsExc(bound) THEN Ran(<<>>, bound) ELSE
    IF ~Truthy(SORA_API_KEY)
    THEN Ran(<<>>, Exc("RuntimeError", "Missing SORA_API_KEY or OPENAI_API_KEY"))
    ELSE LET r == ClientSend(up) IN
         Ran(<<PostJob(StartPayload(args.v["prompt"], args))>>,
             IF IsExc(r) THEN r ELSE _safe_json(r))

\* get_sora_job as defined when FastMCP is installed
get_sora_job_fastmcp(args, up) ==
    LET bound == BindKwargs("get_sora_job", args, {"job_id"}, {"job_id"}) IN
    IF IsExc(bound) THEN Ran(<<>>, bound) ELSE
    IF ~Truthy(SORA_API_KEY)
    THEN Ran(<<>>, Exc("RuntimeError", "Missing SORA_API_KEY or OPENAI_API_KEY"))
    ELSE LET r == ClientSend(up) IN
         Ran(<<GetJob(args.v["job_id"])>>,
             IF IsExc(r) THEN r ELSE NormalizeStatus(_safe_json(r)))

\* start_sora_job(**kwargs) without the "if not prompt" check
start_sora_job_fallback_unchecked(args, up) ==
    IF ~IsObj(args)
    THEN Ran(<<>>, Exc("TypeError", "start_sora_job() argument after ** must be a mapping, not "
                                     \o TypeName(args)))
    ELSE LET r == ClientSend(up) IN
         Ran(<<PostJob(StartPayload(PyGet(args, "prompt"), args))>>,
             IF IsExc(r) THEN r ELSE _safe_json(r))

\* start_sora_job(**kwargs), the fallback
start_sora_job_fallback(args, up) ==
    IF ~IsObj(args)
    THEN Ran(<<>>, Exc("TypeError", "start_sora_job() argument after ** must be a mapping, not "
                                     \o TypeName(args)))
    ELSE
    LET prompt == PyGet(args, "prompt") IN
    IF ~Truthy(prompt)
    THEN Ran(<<>>, Exc("RuntimeError", "start_sora_job requires 'prompt'"))
    ELSE LET r == ClientSend(up) IN
         Ran(<<PostJob(StartPayload(prompt, args))>>,
             IF IsExc(r) THEN r ELSE _safe_json(r))

\* get_sora_job(**kwargs), the fallback
get_sora_job_fallback(args, up) ==
    IF ~IsObj(args)
    THEN Ran(<<>>, Exc("TypeError", "get_sora_job() argument after ** must be a mapping, not "
                                     \o TypeName(args)))
    ELSE
    LET job_id == PyGet(args, "job_id") IN
    IF ~Truthy(job_id)
    THEN Ran(<<>>, Exc("RuntimeError", "get_sora_job requires 'job_id'"))
    ELSE LET r == ClientSend(up) IN
         Ran(<<GetJob(job_id)>>,
             IF IsExc(r) THEN r ELSE NormalizeStatus(_safe_json(r)))

\* the module-level names, bound by "if _FASTMCP_AVAILABLE: ... else: ..."
start_sora_job(args, up) ==
    IF FASTMCP_AVAILABLE THEN start_sora_job_fastmcp(args, up)
    ELSE start_sora_job_fallback(args, up)

get_sora_job(args, up) ==
    IF FASTMCP_AVAILABLE THEN get_sora_job_fastmcp(args, up)
    ELSE get_sora_job_fallback(args, up)

----------------------------------------------------------------------------
(* Responses.  kind "json" is make_response(jsonify(body), code); "empty"   *)
(* is ("", 204); "fault" is an exception that escaped the view function     *)
(* (body is the exception; Flask answers 500 with its own error page).      *)

_ok(data, code) == [kind |-> "json", code |-> code, body |-> data]
_err(msg, code) == _ok(JObj("ok" :> JBool(FALSE) @@ "error" :> JStr(msg)), code)
Empty204 == [kind |-> "empty", code |-> 204, body |-> JNull]
Fault(e) == [kind |-> "fault", code |-> 500, body |-> e]
NoResponse == [kind |-> "none", code |-> 0, body |-> JNull]

\* what a view function did: the tool function it called ("" for none), the
\* outbound requests issued meanwhile, and its response
Did(tool, calls, resp) == [tool |-> tool, calls |-> calls, resp |-> resp]

rpc_result(id_, result) ==
    _ok(JObj("jsonrpc" :> JStr("2.0") @@ "id" :> id_ @@ "result" :> result), 200)

rpc_error(id_, code, message) ==
    _ok(JObj("jsonrpc" :> JStr("2.0") @@ "id" :> id_
          @@ "error" :> JObj("code" :> JNum(code) @@ "message" :> JStr(message))), 200)

rpc_error_data(id_, code, message, data) ==
    _ok(JObj("jsonrpc" :> JStr("2.0") @@ "id" :> id_
          @@ "error" :> JObj("code" :> JNum(code) @@ "message" :> JStr(message)
                          @@ "data" :> data)), 200)

----------------------------------------------------------------------------
(* Catalog *)

StrProp == JObj("type" :> JStr("string"))

_start_job_schema ==
    JObj("type" :> JStr("object")
      @@ "properties" :> JObj("prompt" :> StrProp
                           @@ "duration" :> JObj("type" :> JStr("number"))
                           @@ "aspect_ratio" :> StrProp
                           @@ "resolution" :> StrProp
                           @@ "audio" :> JObj("type" :> JStr("boolean"))
                           @@ "negative_prompt" :> StrProp)
      @@ "required" :> JArr(<<JStr("prompt")>>))

_get_job_schema ==
    JObj("type" :> JStr("object")
      @@ "properties" :> JObj("job_id" :> StrProp)
      @@ "required" :> JArr(<<JStr("job_id")>>))

ToolEntry(name, description, schema) ==
    JObj("name" :> JStr(name) @@ "description" :> JStr(description)
      @@ "type" :> JStr("function")
      @@ "input_schema" :> schema @@ "inputSchema" :> schema @@ "parameters" :> schema)

_tool_list_payload ==
    JObj("tools" :> JArr(<<
        ToolEntry("start_sora_job", "Create a Sora video generation job", _start_job_schema),
        ToolEntry("get_sora_job", "Poll a Sora job and return status + asset URLs",
                  _get_job_schema)>>))

\* the list tools/list builds inline: inputSchema only
RpcToolEntry(name, description, schema) ==
    JObj("name" :> JStr(name) @@ "description" :> JStr(description)
      @@ "type" :> JStr("function") @@ "inputSchema" :> schema)

RpcTools ==
    JArr(<<
        RpcToolEntry("start_sora_job", "Create a Sora video generation job", _start_job_schema),
        RpcToolEntry("get_sora_job", "Poll a Sora job and return status + asset URLs",
                     _get_job_schema)>>)

----------------------------------------------------------------------------
(* Requests: [method, path, auth, valid_json, body].  auth is the           *)
(* Authorization header ("" when absent); body is the parsed JSON body when *)
(* valid_json.                                                              *)

Req(method, path, auth, valid_json, body) ==
    [method |-> method, path |-> path, auth |-> auth, valid_json |-> valid_json, body |-> body]
NoRequest == Req("", "", "", FALSE, JNull)

PublicPaths == {"/", "/healthz", "/tools", "/mcp/tools", "/schema.json", "/.well-known/mcp.json"}

\* None, or the 401 response
_require_auth_for_exec(req) ==
    IF req.method = "OPTIONS" \/ req.path \in PublicPaths
    THEN NoResponse
    ELSE IF Truthy(ACCESS_TOKEN)
    THEN IF req.auth = PyStr(ACCESS_TOKEN) \/ req.auth = "Bearer " \o PyStr(ACCESS_TOKEN)
         THEN NoResponse
         ELSE _err("Unauthorized", 401)
    ELSE NoResponse

\* RunDispatch with the final else missing: any other name polls a job
RunDispatchFallthrough(name, args, up) ==
    LET tool == IF PyEqStr(name, "start_sora_job") THEN "start_sora_job" ELSE "get_sora_job"
        ran == IF tool = "start_sora_job"
               THEN start_sora_job(args, up)
               ELSE get_sora_job(args, up)
    IN  Did(tool, ran.calls,
            IF IsHTTPError(ran.ret)
            THEN _err("Upstream error: " \o PyStr(ran.ret), 502)
            ELSE IF IsExc(ran.ret)
            THEN _err(PyStr(ran.ret), 400)
            ELSE _ok(JObj("ok" :> JBool(TRUE) @@ "result" :> ran.ret), 200))

\* the try block of _run_tool_impl with its two except clauses
RunDispatch(name, args, up) ==
    IF PyEqStr(name, "start_sora_job") \/ PyEqStr(name, "get_sora_job")
    THEN LET ran == IF PyEqStr(name, "start_sora_job")
                    THEN start_sora_job(args, up)
                    ELSE get_sora_job(args, up)
         IN  Did(name.v, ran.calls,
                 IF IsHTTPError(ran.ret)
                 THEN _err("Upstream error: " \o PyStr(ran.ret), 502)
                 ELSE IF IsExc(ran.ret)
                 THEN _err(PyStr(ran.ret), 400)
                 ELSE _ok(JObj("ok" :> JBool(TRUE) @@ "result" :> ran.ret), 200))
    ELSE Did("", <<>>, _err("Unknown tool '" \o PyStr(name) \o "'", 404))

_run_tool_impl(req, up) ==
    IF ~req.valid_json
    THEN Did("", <<>>, _err("Invalid JSON body", 400))
    ELSE
    LET body == PyOr(req.body, EmptyObj)
        named == PyGet(body, "name")
    IN  IF IsExc(named) THEN Did("", <<>>, Fault(named)) ELSE
        LET name == PyOr(named, PyGet(body, "tool"))
            args == PyOr(PyOr(PyGet(body, "arguments"), PyGet(body, "input")), EmptyObj)
        IN  IF ~Truthy(name)
            THEN Did("", <<>>, _err("Missing 'name' (tool)", 400))
            ELSE RunDispatch(name, args, up)

\* POST /tools/call
tools_call_alias(req, up) ==
    LET maybe == _require_auth_for_exec(req) IN
    IF maybe.kind # "none" THEN Did("", <<>>, maybe) ELSE _run_tool_impl(req, up)

\* POST /mcp/run
mcp_run(req, up) ==
    LET maybe == _require_auth_for_exec(req) IN
    IF maybe.kind # "none" THEN Did("", <<>>, maybe) ELSE _run_tool_impl(req, up)

\* the "tools/call" branch of root_jsonrpc
RpcToolsCall(id_, params, up) ==
    LET name == PyGet(params, "name") IN
    IF IsExc(name) THEN Did("", <<>>, Fault(name)) ELSE
    LET arguments == PyOr(PyGet(params, "arguments"), EmptyObj) IN
    IF ~Truthy(name)
    THEN Did("", <<>>, rpc_error(id_, -32602, "Missing 'name' in tools/call params"))
    ELSE IF PyEqStr(name, "start_sora_job") \/ PyEqStr(name, "get_sora_job")
    THEN LET ran == IF PyEqStr(name, "start_sora_job")
                    THEN start_sora_job(arguments, up)
                    ELSE get_sora_job(arguments, up)
         IN  Did(name.v, ran.calls,
                 IF IsExc(ran.ret)
                 THEN rpc_error_data(id_, -32000, "Tool execution failed",
                                     JObj("message" :> JStr(PyStr(ran.ret))))
                 ELSE rpc_result(id_, JObj("content" :> ran.ret)))
    ELSE Did("", <<>>, rpc_error(id_, -32601, "Unknown tool '" \o PyStr(name) \o "'"))

Descriptor ==
    JObj("name" :> JStr("sora-mcp") @@ "version" :> JStr("1.0.0")
      @@ "message" :> JStr("MCP over HTTP (JSON-RPC 2.0). POST JSON-RPC to this endpoint.")
      @@ "endpoints" :> JObj("tools" :> JStr("/tools") @@ "run" :> JStr("/tools/call")
                          @@ "schema" :> JStr("/.well-known/mcp.json")))

\* GET, POST, OPTIONS /   (uuid is str(uuid4()), used when the body has no id)
root_jsonrpc(req, up, uuid) ==
    IF req.method = "OPTIONS" THEN Did("", <<>>, Empty204) ELSE
    IF req.method = "GET" THEN Did("", <<>>, _ok(Descriptor, 200)) ELSE
    LET body == PyOr(IF req.valid_json THEN req.body ELSE JNull, EmptyObj)
        version == PyGet(body, "jsonrpc")
    IN  IF IsExc(version) THEN Did("", <<>>, Fault(version)) ELSE
        IF ~PyEqStr(version, "2.0") \/ ~Has(body, "method")
        THEN Did("", <<>>, _ok(JObj("name" :> JStr("sora-mcp") @@ "version" :> JStr("1.0.0")
                             @@ "note" :> JStr("POST JSON-RPC 2.0 to use MCP")), 200))
        ELSE
        LET method == body.v["method"]
            id_ == PyGetDefault(body, "id", JStr(uuid))
            params == PyOr(PyGet(body, "params"), EmptyObj)
        IN  IF PyEqStr(method, "initialize")
            THEN LET proto == PyGetDefault(params, "protocolVersion", JStr("2025-06-18")) IN
                 IF IsExc(proto) THEN Did("", <<>>, Fault(proto)) ELSE
                 Did("", <<>>, rpc_result(id_,
                        JObj("protocolVersion" :> proto
                          @@ "serverInfo" :> JObj("name" :> JStr("sora-mcp")
                                               @@ "version" :> JStr("1.0.0"))
                          @@ "capabilities" :> JObj("tools" :> EmptyObj))))
            ELSE IF PyEqStr(method, "notifications/initialized")
            THEN Did("", <<>>, Empty204)
            ELSE IF PyEqStr(method, "tools/list")
            THEN Did("", <<>>, rpc_result(id_, JObj("tools" :> RpcTools)))
            ELSE IF PyEqStr(method, "tools/call")
            THEN RpcToolsCall(id_, params, up)
            ELSE Did("", <<>>, rpc_error(id_, -32601, "Method '" \o PyStr(method) \o "' not found"))

\* the routes of the execution entrypoints (@app.post, @app.route)
Answer(req, up) ==
    CASE req.path = "/tools/call" -> tools_call_alias(req, up)
      [] req.path = "/mcp/run"    -> mcp_run(req, up)
      [] OTHER                    -> root_jsonrpc(req, up, "")

\* GET /healthz
healthz == _ok(JObj("ok" :> JBool(TRUE) @@ "status" :> JStr("healthy")), 200)

\* GET /schema.json and GET /.well-known/mcp.json
schema_json ==
    _ok(JObj("name" :> JStr("sora-mcp") @@ "version" :> JStr("1.0.0")
          @@ "endpoints" :> JObj("tools" :> JStr("/tools") @@ "run" :> JStr("/tools/call"))
          @@ "tools" :> JArr([i \in 1..Len(_tool_list_payload.v["tools"].v) |->
                                 _tool_list_payload.v["tools"].v[i].v["name"]])), 200)

\* GET /tools and GET /mcp/tools
tools_alias_get == _ok(_tool_list_payload, 200)

----------------------------------------------------------------------------
(* Inputs *)

Token == "s3cret"
AuthHeaders == {"", Token, "Bearer " \o Token, "Bearer wrong"}

NameVals == {JStr("start_sora_job"), JStr("get_sora_job"), JStr("delete_job"), JStr(""),
             JNum(7)}

ArgVals ==
    { EmptyObj,
      JObj("prompt" :> JStr("a cat surfing")),
      JObj("prompt" :> JStr("a cat surfing") @@ "duration" :> JNum(5)),
      JObj("prompt" :> JStr("a cat surfing") @@ "seed" :> JNum(1)),
      JObj("prompt" :> JStr("")),
      JObj("duration" :> JNum(5)),
      JObj("job_id" :> JStr("job_123")),
      JArr(<<JStr("job_123")>>),
      JStr("job_123") }

\* a tool-call envelope: the name under nk ("name", "tool" or "" for absent), the
\* arguments under ak ("arguments", "input" or "" for absent)
Envelope(nk, n, ak, a) ==
    JObj([k \in ({nk, ak} \ {""}) |-> IF k = nk THEN n ELSE a])

Envelopes ==
    { Envelope(nk, n, ak, a) : nk \in {"name", "tool"}, n \in NameVals,
                               ak \in {"arguments", "input"}, a \in ArgVals }
    \cup { Envelope(nk, n, "", JNull) : nk \in {"name", "tool"}, n \in NameVals }
    \cup { Envelope("", JNull, ak, a) : ak \in {"arguments", "input"}, a \in ArgVals }
    \cup { EmptyObj }

\* JSON bodies that are not an object
NonObjects == {JArr(<<JNum(1)>>), JStr("start_sora_job"), JNum(7), JNull, JArr(<<>>)}

RestRequests(path) ==
    { Req("POST", path, auth, TRUE, body) : auth \in AuthHeaders, body \in Envelopes \cup NonObjects }
    \cup { Req("POST", path, auth, FALSE, JNull) : auth \in AuthHeaders }

Rpc(method, params) ==
    JObj("jsonrpc" :> JStr("2.0") @@ "id" :> JNum(1) @@ "method" :> method @@ "params" :> params)

RpcBodies ==
    { Rpc(JStr("tools/call"), e) : e \in Envelopes \cup NonObjects }
    \cup { Rpc(JStr(m), p) : m \in {"initialize", "notifications/initialized", "tools/list",
                                   "resources/list"},
                             p \in {EmptyObj, JNull, JArr(<<JNum(1)>>),
                                    JObj("protocolVersion" :> JStr("2024-11-05"))} }
    \cup { JObj("jsonrpc" :> JStr("2.0") @@ "method" :> JStr("tools/list")),
           JObj("jsonrpc" :> JStr("2.0") @@ "method" :> JStr("tools/call")
                @@ "params" :> Envelope("name", JStr("get_sora_job"), "arguments",
                                        JObj("job_id" :> JStr("job_123")))),
           JObj("jsonrpc" :> JStr("1.0") @@ "method" :> JStr("tools/list")),
           JObj("jsonrpc" :> JStr("2.0") @@ "id" :> JNum(1)),
           JObj("jsonrpc" :> JStr("2.0") @@ "id" :> JNum(1) @@ "method" :> JNum(7)) }
    \cup NonObjects

RootRequests ==
    { Req("POST", "/", auth, TRUE, body) : auth \in AuthHeaders, body \in RpcBodies }
    \cup { Req(m, "/", auth, FALSE, JNull) : m \in {"GET", "POST", "OPTIONS"}, auth \in AuthHeaders }

UUIDs == {"6f1c0e0a", "b2a9d3c4"}

\* the job of the spec's scenario B
CompletedJob ==
    JObj("status" :> JStr("completed") @@ "progress" :> JNum(100)
      @@ "output" :> JObj("assets" :> JArr(<<JObj("url" :> JStr("https://x/video.mp4"))>>)
                       @@ "thumbnail_url" :> JStr("https://x/thumb.jpg")))

Upstreams ==
    { UpTimeout, UpConnect,
      UpResponse(200, CompletedJob),
      UpResponse(200, JObj("id" :> JStr("job_123") @@ "status" :> JStr("queued"))),
      UpResponse(200, JObj("status" :> JStr("queued") @@ "output" :> JStr("pending"))),
      UpResponse(200, JArr(<<CompletedJob>>)),
      UpResponse(400, JObj("error" :> JStr("bad request"))),
      UpResponse(404, JObj("error" :> JStr("no such job"))),
      UpText(502, "Bad Gateway"),
      UpText(200, "OK") }

----------------------------------------------------------------------------
(* The server: one worker, one exchange at a time *)

Init ==
    /\ ACCESS_TOKEN \in {JNull, JStr(""), JStr(Token)}        \* unset, set empty, set
    /\ SORA_API_KEY \in {JNull, JStr(""), JStr("sk-test")}
    /\ FASTMCP_AVAILABLE \in BOOLEAN
    /\ request = NoRequest
    /\ upstream = UpNone
    /\ invoked = ""
    /\ outbound = <<>>
    /\ response = NoResponse

Idle == request = NoRequest

\* the worker runs a view function on req; up is what the upstream does if asked
Serve(req, up, did) ==
    /\ request' = req
    /\ upstream' = IF did.calls = <<>> THEN UpNone ELSE up
    /\ invoked' = did.tool
    /\ outbound' = did.calls
    /\ response' = did.resp
    /\ UNCHANGED <<ACCESS_TOKEN, SORA_API_KEY, FASTMCP_AVAILABLE>>

ToolsCallAlias ==
    /\ Idle
    /\ \E req \in RestRequests("/tools/call"), up \in Upstreams :
           Serve(req, up, tools_call_alias(req, up))

McpRun ==
    /\ Idle
    /\ \E req \in RestRequests("/mcp/run"), up \in Upstreams :
           Serve(req, up, mcp_run(req, up))

RootJsonrpc ==
    /\ Idle
    /\ \E req \in RootRequests, up \in Upstreams, uuid \in UUIDs :
           Serve(req, up, root_jsonrpc(req, up, uuid))

Healthz ==
    /\ Idle
    /\ \E auth \in AuthHeaders :
           Serve(Req("GET", "/healthz", auth, FALSE, JNull), UpNone, Did("", <<>>, healthz))

ToolsAliasGet ==
    /\ Idle
    /\ \E auth \in AuthHeaders, path \in {"/tools", "/mcp/tools"} :
           Serve(Req("GET", path, auth, FALSE, JNull), UpNone, Did("", <<>>, tools_alias_get))

SchemaJson ==
    /\ Idle
    /\ \E auth \in AuthHeaders, path \in {"/schema.json", "/.well-known/mcp.json"} :
           Serve(Req("GET", path, auth, FALSE, JNull), UpNone, Did("", <<>>, schema_json))

\* the response goes out and the worker is free again
Deliver ==
    /\ ~Idle
    /\ request' = NoRequest
    /\ upstream' = UpNone
    /\ invoked' = ""
    /\ outbound' = <<>>
    /\ response' = NoResponse
    /\ UNCHANGED <<ACCESS_TOKEN, SORA_API_KEY, FASTMCP_AVAILABLE>>

Next ==
    \/ ToolsCallAlias
    \/ McpRun
    \/ RootJsonrpc
    \/ Healthz
    \/ ToolsAliasGet
    \/ SchemaJson
    \/ Deliver

Spec == Init /\ [][Next]_vars

----------------------------------------------------------------------------
(* Vocabulary of the claims, read off the recorded exchange *)

RestExec == request.method = "POST" /\ request.path \in {"/tools/call", "/mcp/run"}

\* a JSON-RPC 2.0 "tools/call" request on POST /
RpcCall ==
    /\ request.method = "POST" /\ request.path = "/" /\ request.valid_json
    /\ Has(request.body, "jsonrpc") /\ request.body.v["jsonrpc"] = JStr("2.0")
    /\ Has(request.body, "method") /\ request.body.v["method"] = JStr("tools/call")

\* the tool-call envelope of the request: the REST body, the JSON-RPC params
EnvelopeOf ==
    IF RestExec THEN (IF request.valid_json THEN request.body ELSE JNull)
    ELSE IF Has(request.body, "params") THEN request.body.v["params"] ELSE JNull

Field(env, key, alias) ==
    IF Has(env, key) THEN env.v[key] ELSE IF Has(env, alias) THEN env.v[alias] ELSE JNull

\* the tool name and the arguments the envelope gives, under either spelling
ToolName == Field(EnvelopeOf, "name", "tool")
Arguments == Field(EnvelopeOf, "arguments", "input")

TokenConfigured == ACCESS_TOKEN.t = "str" /\ ACCESS_TOKEN.v # ""
TokenPresented ==
    ACCESS_TOKEN.t = "str" /\ request.auth \in {ACCESS_TOKEN.v, "Bearer " \o ACCESS_TOKEN.v}
PassesGate == TokenConfigured => TokenPresented

\* REST failure {ok: false, error: ...} with the given HTTP status
RestError(code) ==
    /\ response.kind = "json" /\ response.code = code
    /\ Has(response.body, "ok") /\ response.body.v["ok"] = JBool(FALSE)
    /\ Has(response.body, "error")

RestSuccess ==
    /\ response.kind = "json" /\ response.code = 200
    /\ Has(response.body, "ok") /\ response.body.v["ok"] = JBool(TRUE)

\* a JSON-RPC error object, and no result
RpcError ==
    /\ response.kind = "json"
    /\ Has(response.body, "error") /\ ~Has(response.body, "result")

RpcSuccess ==
    /\ response.kind = "json"
    /\ Has(response.body, "result") /\ ~Has(response.body, "error")

NoNetwork == outbound = <<>>

----------------------------------------------------------------------------
(* C1: with an access token configured, a tool-execution request (POST      *)
(* /tools/call, POST /mcp/run, JSON-RPC tools/call on POST /) that presents *)
(* neither the token nor "Bearer <token>" gets 401 and reaches neither a    *)
(* tool function nor the upstream; discovery and health stay open.          *)
C1_ExecRequiresToken ==
    /\ (TokenConfigured /\ (RestExec \/ RpcCall) /\ ~TokenPresented)
          => (RestError(401) /\ invoked = "" /\ NoNetwork)
    /\ (request.method = "GET" /\ request.path \in PublicPaths)
          => (response.kind = "json" /\ response.code = 200)

----------------------------------------------------------------------------
(* C2: a request that names a tool other than start_sora_job and            *)
(* get_sora_job gets NotFound (REST: 404 with {ok: false}; JSON-RPC: an     *)
(* error object, code -32601 when the name is under "name") and neither a   *)
(* tool function nor the upstream is reached.                               *)
Registry == {JStr("start_sora_job"), JStr("get_sora_job")}

UnknownTool == (RestExec \/ RpcCall) /\ Truthy(ToolName) /\ ToolName \notin Registry

C2_UnknownToolNotFound ==
    UnknownTool =>
        /\ invoked = "" /\ NoNetwork
        /\ (RestExec /\ PassesGate) => RestError(404)
        /\ RpcCall => RpcError
        /\ (RpcCall /\ Has(EnvelopeOf, "name"))
              => response.body.v["error"].v["code"] = JNum(-32601)

C2_Witness ==
    /\ UnknownTool /\ RestExec /\ TokenConfigured /\ TokenPresented
    /\ Truthy(SORA_API_KEY)
    /\ Has(Arguments, "prompt")
    /\ RestError(404)

----------------------------------------------------------------------------
(* C3: start_sora_job without "prompt" and get_sora_job without "job_id"    *)
(* are rejected before any network call (REST: 400 with {ok: false};        *)
(* JSON-RPC: an error object), whichever pair of tool functions is defined. *)
MissingRequired ==
    /\ RestExec \/ RpcCall
    /\ \/ ToolName = JStr("start_sora_job") /\ ~Has(Arguments, "prompt")
       \/ ToolName = JStr("get_sora_job") /\ ~Has(Arguments, "job_id")

C3_MissingRequiredRejected ==
    MissingRequired =>
        /\ NoNetwork
        /\ (RestExec /\ PassesGate) => RestError(400)
        /\ RpcCall => RpcError

C3_Witness ==
    /\ MissingRequired /\ RestExec /\ PassesGate
    /\ FASTMCP_AVAILABLE /\ Truthy(SORA_API_KEY)
    /\ ToolName = JStr("start_sora_job") /\ Has(Arguments, "duration")
    /\ invoked = "start_sora_job"
    /\ RestError(400)

----------------------------------------------------------------------------
(* C4: with no API key configured, every invocation of either tool fails    *)
(* with MissingCredential and makes no network call, whichever pair of tool *)
(* functions is defined.                                                    *)
C4_NoKeyNoNetwork ==
    (~Truthy(SORA_API_KEY) /\ invoked # "") =>
        /\ NoNetwork
        /\ RestExec => (response.kind = "json" /\ response.code >= 400
                        /\ response.body.v["ok"] = JBool(FALSE))
        /\ RpcCall => RpcError

----------------------------------------------------------------------------
(* C5: a non-2xx answer of the upstream is reported as UpstreamRejected:    *)
(* the REST entrypoint answers {ok: false, ...} with HTTP 502 and the       *)
(* JSON-RPC entrypoint with an error object, never with a success.          *)
UpstreamRejected ==
    upstream.kind = "response" /\ ~(upstream.status_code \in 200..299)

C5_Non2xxIsFailure ==
    UpstreamRejected =>
        /\ RestExec => RestError(502)
        /\ RpcCall => RpcError

----------------------------------------------------------------------------
(* C6: a timeout of the outbound request is reported as UpstreamUnreachable *)
(* and the REST entrypoint answers HTTP 504.                                *)
C6_TimeoutIs504 ==
    (upstream.kind = "timeout" /\ RestExec) => RestError(504)

----------------------------------------------------------------------------
(* C7: whatever body an execution entrypoint is sent, no failure escapes    *)
(* the handler: the response is a structured one.                           *)
C7_NoUnhandledFault ==
    (RestExec \/ (request.method = "POST" /\ request.path = "/"))
        => response.kind \in {"json", "empty"}

----------------------------------------------------------------------------
(* C10: on each execution entrypoint, a request written with "tool" for     *)
(* "name" and/or "input" for "arguments" is answered exactly as the same    *)
(* request written with the canonical keys.                                 *)
CanonKey(k) == IF k = "tool" THEN "name" ELSE IF k = "input" THEN "arguments" ELSE k

Canonical(env) ==
    JObj([c \in {CanonKey(k) : k \in DOMAIN env.v} |->
            env.v[CHOOSE k \in DOMAIN env.v : CanonKey(k) = c]])

UsesAlias ==
    /\ RestExec \/ RpcCall
    /\ IsObj(EnvelopeOf)
    /\ Has(EnvelopeOf, "tool") \/ Has(EnvelopeOf, "input")

CanonicalRequest ==
    IF RestExec
    THEN [request EXCEPT !.body = Canonical(EnvelopeOf)]
    ELSE [request EXCEPT !.body = JObj([k \in DOMAIN request.body.v |->
                                          IF k = "params" THEN Canonical(EnvelopeOf)
                                          ELSE request.body.v[k]])]

C10_AliasesEquivalent ==
    UsesAlias =>
        LET same == Answer(CanonicalRequest, upstream) IN
        /\ invoked = same.tool
        /\ outbound = same.calls
        /\ response = same.resp

----------------------------------------------------------------------------
(* The normaliser on its own: polls of one job, answered 200 by the         *)
(* upstream with every job object of JobBodies.                             *)

SeqsUpTo(S, n) == UNION { [1..k -> S] : k \in 0..n }

Absent == [t |-> "absent"]

\* an object from key/value pairs, leaving out the Absent values
Obj(pairs) ==
    JObj([k \in { p[1] : p \in { q \in pairs : q[2] # Absent } } |->
            (CHOOSE p \in pairs : p[1] = k)[2]])

VideoUrl == JStr("https://x/video.mp4")
AltUrl == JStr("https://x/alt.mp4")
ThumbUrl == JStr("https://x/thumb.jpg")

AssetVals == { JNull, EmptyObj, JObj("url" :> VideoUrl), JObj("url" :> AltUrl) }
BadAssetVals == { VideoUrl, JNum(7) }

AssetsVals ==
    { Absent, JNull } \cup { JArr(s) : s \in SeqsUpTo(AssetVals, MaxAssets) }
BadAssetsVals ==
    { JStr("none"), JNum(1), JObj("0" :> JObj("url" :> VideoUrl)) }
    \cup { JArr(<<b>> \o s) : b \in BadAssetVals, s \in SeqsUpTo({JObj("url" :> AltUrl)}, 1) }

OutputVals ==
    { Absent, JNull }
    \cup { Obj({<<"assets", a>>, <<"thumbnail_url", th>>}) :
             a \in AssetsVals, th \in {Absent, ThumbUrl} }
BadOutputVals ==
    { JStr("pending"), JNum(1), JArr(<<JObj("url" :> VideoUrl)>>) }
    \cup { Obj({<<"assets", a>>, <<"thumbnail_url", ThumbUrl>>}) : a \in BadAssetsVals }

Progress == { <<Absent, Absent>>, <<JStr("completed"), JNum(100)>>, <<JStr("queued"), JNum(0)>>,
              <<JNull, JNull>> }

JobBodies ==
    { Obj({<<"status", sp[1]>>, <<"progress", sp[2]>>, <<"output", o>>}) :
        sp \in Progress, o \in OutputVals \cup BadOutputVals }

PollArgs == JObj("job_id" :> JStr("job_123"))

PollJob ==
    /\ Idle
    /\ \E job \in JobBodies, path \in {"/tools/call", "/mcp/run"} :
           LET req == Req("POST", path, "Bearer " \o Token, TRUE,
                          Envelope("name", JStr("get_sora_job"), "arguments", PollArgs))
               up == UpResponse(200, job)
           IN  Serve(req, up, Answer(req, up))

PollJobRpc ==
    /\ Idle
    /\ \E job \in JobBodies :
           LET req == Req("POST", "/", "", TRUE,
                          Rpc(JStr("tools/call"),
                              Envelope("name", JStr("get_sora_job"), "arguments", PollArgs)))
               up == UpResponse(200, job)
           IN  Serve(req, up, Answer(req, up))

NextNormalize ==
    \/ PollJob
    \/ PollJobRpc
    \/ Deliver

SpecNormalize == Init /\ [][NextNormalize]_vars

----------------------------------------------------------------------------
(* The normalisation as the specification words it *)

Lookup(j, k) == IF Has(j, k) THEN j.v[k] ELSE JNull

RefVideoUrl(j) ==
    LET assets == Lookup(Lookup(j, "output"), "assets") IN
    IF assets.t = "arr" /\ assets.v # <<>>
    THEN Lookup(Head(assets.v), "url")
    ELSE JNull

RefNormalize(j) ==
    JObj([k \in {"status", "progress", "video_url", "thumbnail_url", "raw"} |->
            CASE k = "status" -> Lookup(j, "status")
              [] k = "progress" -> Lookup(j, "progress")
              [] k = "video_url" -> RefVideoUrl(j)
              [] k = "thumbnail_url" -> Lookup(Lookup(j, "output"), "thumbnail_url")
              [] k = "raw" -> j])

OneOf(x, tags) == x.t \in tags

\* every field that is present has the type the data model gives it
WellTyped(j) ==
    /\ IsObj(j)
    /\ OneOf(Lookup(j, "status"), {"null", "str"})
    /\ OneOf(Lookup(j, "progress"), {"null", "num"})
    /\ OneOf(Lookup(j, "output"), {"null", "obj"})
    /\ OneOf(Lookup(Lookup(j, "output"), "thumbnail_url"), {"null", "str"})
    /\ LET assets == Lookup(Lookup(j, "output"), "assets") IN
       /\ OneOf(assets, {"null", "arr"})
       /\ assets.t = "arr" =>
             \A i \in 1..Len(assets.v) :
                 /\ OneOf(assets.v[i], {"null", "obj"})
                 /\ OneOf(Lookup(assets.v[i], "url"), {"null", "str"})

\* get_sora_job ran and the upstream answered it with a JSON object
Polled ==
    /\ invoked = "get_sora_job"
    /\ upstream.kind = "response" /\ upstream.is_json /\ IsObj(upstream.body)

\* the tool result the response carries, JNull if it carries none
ResultOf ==
    IF RestExec
    THEN (IF RestSuccess THEN Lookup(response.body, "result") ELSE JNull)
    ELSE (IF RpcSuccess THEN Lookup(Lookup(response.body, "result"), "content") ELSE JNull)

----------------------------------------------------------------------------
(* C8: the normalisation in get_sora_job is total: whatever JSON object the *)
(* upstream answers, with "output", "output.assets" or "assets[0]" absent,  *)
(* null, empty or of an unexpected type, the result is a NormalizedStatus.  *)
C8_NormalizeTotal ==
    Polled =>
        /\ IsObj(ResultOf)
        /\ DOMAIN ResultOf.v = {"status", "progress", "video_url", "thumbnail_url", "raw"}

----------------------------------------------------------------------------
(* C9: for an upstream job object with well-typed fields the result of      *)
(* get_sora_job is the reference normalisation: status and progress copied, *)
(* video_url the url of element 0 of output.assets, thumbnail_url that of   *)
(* output, raw the upstream object itself.                                  *)
C9_NormalizeMatchesReference ==
    (Polled /\ WellTyped(upstream.body)) => ResultOf = RefNormalize(upstream.body)

C9_Witness ==
    /\ Polled /\ WellTyped(upstream.body)
    /\ Lookup(Lookup(upstream.body, "output"), "assets").t = "arr"
    /\ Len(Lookup(Lookup(upstream.body, "output"), "assets").v) = 2
    /\ Lookup(ResultOf, "video_url") = VideoUrl
    /\ Lookup(ResultOf, "progress") = JNum(0)
    /\ Lookup(ResultOf, "raw") = upstream.body

====
